---- MODULE Spec2Model ----
(***************************************************************************)
(* Model of src-tauri/src/process.rs: detection of the working directories *)
(* of running "claude" processes.                                          *)
(*                                                                         *)
(* Text is modelled at the level of characters: a string is a sequence of  *)
(* one-character strings, a byte string that is not valid UTF-8 holds the  *)
(* byte BadByte.  The external facilities (ps, lsof, /proc) are the        *)
(* environment: what they answer is chosen when the code calls them.       *)
(***************************************************************************)
EXTENDS Integers, Sequences, FiniteSets, TLC

VARIABLES
    platform,       \* target_os the crate was built for
    procs,          \* command names of the running processes, in ps order
    pc,             \* position of the one call of get_active_sessions
    ps_out,         \* Option<Output> of the ps invocation
    pids,           \* Vec<u32> returned by get_claude_pids
    idx,            \* position of the for loop of detect_linux_sessions
    cwd_of,         \* what the environment answered for a PID's directory
    lsof_out,       \* Option<Output> of the lsof invocation
    paths,          \* the HashSet being filled by detect_linux_sessions
    lsof_calls,     \* number of lsof invocations issued
    readlink_calls, \* number of /proc/<pid>/cwd links read
    result          \* Option<ActiveSessionsResult>: the returned value

vars == <<platform, procs, pc, ps_out, pids, idx, cwd_of, lsof_out, paths,
          lsof_calls, readlink_calls, result>>

----------------------------------------------------------------------------
(* Bounds of the model *)

MaxProcs == 2

----------------------------------------------------------------------------
(* Characters and strings *)

NL == "\n"
CR == "\r"
BadByte == "xFF"        \* a byte that is no valid UTF-8
Replacement == "uFFFD"  \* U+FFFD REPLACEMENT CHARACTER

Digits == <<"0", "1", "2", "3", "4", "5", "6", "7", "8", "9">>
IsDigit(c) == \E i \in 1..10 : Digits[i] = c
DigitVal(c) == (CHOOSE i \in 1..10 : Digits[i] = c) - 1

None == <<>>
Some(v) == <<v>>

Claude == <<"c", "l", "a", "u", "d", "e">>
ClaudeHelper == Claude \o <<"-", "h", "e", "l", "p", "e", "r">>
NotClaude == <<"n", "o", "t">> \o Claude
ClaudeUpper == <<"C", "l", "a", "u", "d", "e">>
ClaudeSpaced == Claude \o <<" ", "h", "e", "l", "p", "e", "r">>
Bash == <<"b", "a", "s", "h">>

PathA == <<"/", "a">>
PathB == <<"/", "b">>
PathBad == <<"/", BadByte>>

\* char::is_whitespace, on the characters of the model
IsWhitespace(c) == c \in {" ", "\t", NL, CR}

\* String::from_utf8_lossy: invalid bytes become U+FFFD
from_utf8_lossy(bytes) ==
    [i \in 1..Len(bytes) |-> IF bytes[i] = BadByte THEN Replacement ELSE bytes[i]]

\* Path::to_str: None unless the path is valid UTF-8
to_str(bytes) ==
    IF \E i \in 1..Len(bytes) : bytes[i] = BadByte THEN None ELSE Some(bytes)

\* the elements a..b of s that exist, none when b < a
Sub(s, a, b) ==
    LET last == IF b < Len(s) THEN b ELSE Len(s) IN
    [i \in 1..(last - a + 1) |-> s[a + i - 1]]

\* position of the first c in s, 0 when there is none
Find(s, c) ==
    IF \E i \in 1..Len(s) : s[i] = c
    THEN CHOOSE i \in 1..Len(s) : s[i] = c /\ \A j \in 1..(i - 1) : s[j] # c
    ELSE 0

\* str::lines: split at "\n", a "\r" before the "\n" is dropped, no empty
\* last line after a final "\n"
RECURSIVE lines(_)
lines(s) ==
    IF s = <<>> THEN <<>>
    ELSE LET k == Find(s, NL) IN
         IF k = 0 THEN <<s>>
         ELSE LET l == Sub(s, 1, k - 1)
                  line == IF l # <<>> /\ l[Len(l)] = CR
                          THEN Sub(l, 1, Len(l) - 1) ELSE l
              IN <<line>> \o lines(Sub(s, k + 1, Len(s)))

\* str::split_whitespace: the maximal runs of non-whitespace characters
RECURSIVE split_whitespace(_)
split_whitespace(s) ==
    IF s = <<>> THEN <<>>
    ELSE IF IsWhitespace(s[1]) THEN split_whitespace(Tail(s))
    ELSE LET ws == {i \in 1..Len(s) : IsWhitespace(s[i])}
             k == IF ws = {} THEN Len(s) + 1
                  ELSE CHOOSE i \in ws : \A j \in ws : i <= j
         IN <<Sub(s, 1, k - 1)>> \o split_whitespace(Sub(s, k, Len(s)))

\* u32::MAX = 4294967295, as a numeral (it exceeds the integers of TLC)
U32MaxDigits == <<"4", "2", "9", "4", "9", "6", "7", "2", "9", "5">>

RECURSIVE StripZeros(_)
StripZeros(d) ==
    IF Len(d) > 1 /\ d[1] = "0" THEN StripZeros(Tail(d)) ELSE d

\* numeral a is greater than numeral b (no leading zeros)
NumeralGreater(a, b) ==
    \/ Len(a) > Len(b)
    \/ /\ Len(a) = Len(b)
       /\ \E i \in 1..Len(a) :
            /\ DigitVal(a[i]) > DigitVal(b[i])
            /\ \A j \in 1..(i - 1) : a[j] = b[j]

RECURSIVE NumeralValue(_)
NumeralValue(d) ==
    IF d = <<>> THEN 0
    ELSE 10 * NumeralValue(Sub(d, 1, Len(d) - 1)) + DigitVal(d[Len(d)])

\* str::parse::<u32>: an optional "+", then one or more decimal digits, the
\* value at most u32::MAX; anything else is an error
parse_u32(tok) ==
    LET body == IF tok # <<>> /\ tok[1] = "+" THEN Tail(tok) ELSE tok IN
    IF body = <<>> \/ \E i \in 1..Len(body) : ~IsDigit(body[i]) THEN None
    ELSE IF NumeralGreater(StripZeros(body), U32MaxDigits) THEN None
    ELSE Some(NumeralValue(StripZeros(body)))

\* u32::to_string: the decimal numeral
RECURSIVE to_string(_)
to_string(n) ==
    IF n < 10 THEN <<Digits[n + 1]>>
    ELSE to_string(n \div 10) \o <<Digits[(n % 10) + 1]>>

\* concatenation of a sequence of sequences
RECURSIVE Flatten(_)
Flatten(ss) == IF ss = <<>> THEN <<>> ELSE Head(ss) \o Flatten(Tail(ss))

\* slice::join
RECURSIVE join(_, _)
join(ss, sep) ==
    IF ss = <<>> THEN <<>>
    ELSE IF Len(ss) = 1 THEN ss[1]
    ELSE ss[1] \o sep \o join(Tail(ss), sep)

\* str::split at a separator character
RECURSIVE split(_, _)
split(s, c) ==
    LET k == Find(s, c) IN
    IF k = 0 THEN <<s>>
    ELSE <<Sub(s, 1, k - 1)>> \o split(Sub(s, k + 1, Len(s)), c)

Range(s) == {s[i] : i \in 1..Len(s)}

----------------------------------------------------------------------------
(* The environment: the process table, ps, lsof and /proc *)

Platforms == {"macos", "linux", "windows", "other"}

\* command names a process can have
Comms == {Claude, ClaudeHelper, NotClaude, ClaudeUpper, ClaudeSpaced, Bash}

\* a working directory as the OS holds it (bytes), or none: the process is
\* gone, or the caller may not look at it
CwdAnswers == {None, Some(PathA), Some(PathB), Some(PathBad)}

\* lines of a listing that are no process line: a line cut after its first
\* field, a PID that is no number, a PID that does not fit 32 bits
Truncated == <<" ", " ", "1", "0", "1">>
NonNumeric == <<"a", "b", "c", " ">> \o Claude
Overflowing == <<"4", "2", "9", "4", "9", "6", "7", "2", "9", "6", " ">> \o Claude
Noise == {None, Some(Truncated), Some(NonNumeric), Some(Overflowing)}

\* the PID of the i-th process of the table
PidOf(i) == 99 + i

PsHeader == <<" ", " ", "P", "I", "D", " ", "C", "O", "M", "M", "A", "N", "D">>

\* one line of `ps -eo pid,comm`: the PID right-aligned, a space, the command
\* name as it is, blanks included
PsLine(pid, comm) ==
    LET num == to_string(pid) IN
    [i \in 1..(5 - Len(num)) |-> " "] \o num \o <<" ">> \o comm

\* the standard output of `ps -eo pid,comm` for the process table ps, with the
\* noise line (if any) after the first process line
PsStdout(ps, noise) ==
    LET plines == [i \in 1..Len(ps) |-> PsLine(PidOf(i), ps[i])]
        all == <<PsHeader>> \o Sub(plines, 1, 1) \o noise
               \o Sub(plines, 2, Len(plines))
    IN Flatten([i \in 1..Len(all) |-> all[i] \o <<NL>>])

\* the block lsof -Fn writes for one PID of its -p list: p<pid>, fcwd, n<path>;
\* nothing for a PID whose directory it cannot give
LsofBlock(numeral, m) ==
    LET p == parse_u32(numeral) IN
    IF p # None /\ p[1] \in DOMAIN m /\ m[p[1]] # None
    THEN <<"p">> \o numeral \o <<NL, "f", "c", "w", "d", NL, "n">>
         \o m[p[1]][1] \o <<NL>>
    ELSE <<>>

\* the output of `lsof -a -d cwd -Fn -p arg` when the directories are m; lsof
\* exits with status 1 when it found nothing for one of the PIDs
LsofOutput(arg, m) ==
    LET nums == split(arg, ",")
        blocks == [i \in 1..Len(nums) |-> LsofBlock(nums[i], m)]
    IN [status |-> IF \E i \in 1..Len(nums) : blocks[i] = <<>> THEN 1 ELSE 0,
        stdout |-> Flatten(blocks)]

ProcPrefix == <<"p", "r", "o", "c">>
CwdName == <<"c", "w", "d">>

\* std::fs::read_link of a path, when the directories are fs: Ok for
\* /proc/<pid>/cwd of a PID whose directory is readable, Err otherwise
read_link(path, fs) ==
    LET parts == split(path, "/") IN
    IF /\ Len(parts) = 4
       /\ parts[1] = <<>>
       /\ parts[2] = ProcPrefix
       /\ parts[4] = CwdName
       /\ parse_u32(parts[3]) # None
       /\ parse_u32(parts[3])[1] \in DOMAIN fs
    THEN fs[parse_u32(parts[3])[1]]
    ELSE None

----------------------------------------------------------------------------
(* The code *)

\* the closure of the filter_map of get_claude_pids
pid_of_line(line) ==
    LET parts == split_whitespace(line) IN
    IF Len(parts) >= 2 /\ parts[2] = Claude THEN parse_u32(parts[1]) ELSE None

\* a scan that stops at the first line giving no PID (map_while for filter_map)
RECURSIVE map_while_pids(_)
map_while_pids(ls) ==
    IF ls = <<>> \/ pid_of_line(Head(ls)) = None THEN <<>>
    ELSE pid_of_line(Head(ls)) \o map_while_pids(Tail(ls))

\* filter_map(..).collect() over the lines of the listing
RECURSIVE filter_map_pids(_)
filter_map_pids(ls) ==
    IF ls = <<>> THEN <<>>
    ELSE pid_of_line(Head(ls)) \o filter_map_pids(Tail(ls))

\* a lister that answers PID 0 when ps cannot be spawned
get_claude_pids_default(output) ==
    IF output = None THEN <<0>>
    ELSE filter_map_pids(lines(from_utf8_lossy(output[1].stdout)))

\* get_claude_pids, given what Command::output().ok() gave
get_claude_pids(output) ==
    IF output = None THEN <<>>
    ELSE filter_map_pids(lines(from_utf8_lossy(output[1].stdout)))

\* pids.iter().map(|p| p.to_string()).collect::<Vec<_>>().join(",")
pid_list(ps) == join([i \in 1..Len(ps) |-> to_string(ps[i])], <<",">>)

\* detect_macos_sessions without its early return
NoShortCircuit(ps) == FALSE

\* the early return of detect_macos_sessions
ShortCircuit(ps) == ps = <<>>

\* line.strip_prefix('n').map(String::from)
strip_prefix_n(line) ==
    IF line # <<>> /\ line[1] = "n" THEN Some(Tail(line)) ELSE None

\* filter_map(..).collect() into the HashSet
RECURSIVE filter_map_paths(_)
filter_map_paths(ls) ==
    IF ls = <<>> THEN {}
    ELSE Range(strip_prefix_n(Head(ls))) \cup filter_map_paths(Tail(ls))

\* detect_macos_sessions after the lsof call, given Command::output().ok()
macos_paths(output) ==
    IF output = None THEN {}
    ELSE filter_map_paths(lines(from_utf8_lossy(output[1].stdout)))

\* format!("/proc/{}/cwd", pid)
proc_path(pid) == <<"/">> \o ProcPrefix \o <<"/">> \o to_string(pid)
                  \o <<"/">> \o CwdName

\* get_process_cwd_linux: read_link(..).ok().and_then(|p| p.to_str()..)
get_process_cwd_linux(pid, fs) ==
    LET link == read_link(proc_path(pid), fs) IN
    IF link = None THEN None ELSE to_str(link[1])

\* a loop body that gives up on a failed lookup, dropping what it had
linux_insert_or_reset(set, cwd) == IF cwd = None THEN {} ELSE set \cup Range(cwd)

\* the body of the for loop of detect_linux_sessions: if let Some(cwd) = ..
\* { paths.insert(cwd) }
linux_insert(set, cwd) == set \cup Range(cwd)

\* detect_linux_sessions over the PIDs ps when the directories are fs
RECURSIVE detect_linux_sessions(_, _)
detect_linux_sessions(ps, fs) ==
    IF ps = <<>> THEN {}
    ELSE linux_insert(detect_linux_sessions(Sub(ps, 1, Len(ps) - 1), fs),
                      get_process_cwd_linux(ps[Len(ps)], fs))

\* detect_macos_sessions over the PIDs ps when the directories are fs and
\* lsof can be spawned
detect_macos_sessions(ps, fs) ==
    IF ShortCircuit(ps) THEN {}
    ELSE macos_paths(Some(LsofOutput(pid_list(ps), fs)))

\* get_active_sessions with the flag of the Linux branch wrong
get_active_sessions_linux_flag(os, detected) ==
    CASE os = "macos" -> [supported |-> TRUE, active_paths |-> detected]
      [] os = "linux" -> [supported |-> FALSE, active_paths |-> detected]
      [] os = "windows" -> [supported |-> FALSE, active_paths |-> {}]
      [] OTHER -> [supported |-> FALSE, active_paths |-> {}]

\* get_active_sessions with the flag of the macOS branch wrong
get_active_sessions_macos_flag(os, detected) ==
    CASE os = "macos" -> [supported |-> FALSE, active_paths |-> detected]
      [] os = "linux" -> [supported |-> TRUE, active_paths |-> detected]
      [] os = "windows" -> [supported |-> FALSE, active_paths |-> {}]
      [] OTHER -> [supported |-> FALSE, active_paths |-> {}]

\* get_active_sessions with the flag of the Windows branch wrong
get_active_sessions_windows_flag(os, detected) ==
    CASE os = "macos" -> [supported |-> TRUE, active_paths |-> detected]
      [] os = "linux" -> [supported |-> TRUE, active_paths |-> detected]
      [] os = "windows" -> [supported |-> TRUE, active_paths |-> {}]
      [] OTHER -> [supported |-> FALSE, active_paths |-> {}]

\* the ActiveSessionsResult built by get_active_sessions for target_os os,
\* detected being what the platform's detect function returned
get_active_sessions(os, detected) ==
    CASE os = "macos" -> [supported |-> TRUE, active_paths |-> detected]
      [] os = "linux" -> [supported |-> TRUE, active_paths |-> detected]
      [] os = "windows" -> [supported |-> FALSE, active_paths |-> {}]
      [] OTHER -> [supported |-> FALSE, active_paths |-> {}]

----------------------------------------------------------------------------
(* The state machine: one call of get_active_sessions *)

NoFs == [p \in {} |-> None]

Init ==
    /\ platform \in Platforms
    /\ procs \in UNION {[1..n -> Comms] : n \in 0..MaxProcs}
    /\ pc = "idle"
    /\ ps_out = None
    /\ pids = <<>>
    /\ idx = 1
    /\ cwd_of = NoFs
    /\ lsof_out = None
    /\ paths = {}
    /\ lsof_calls = 0
    /\ readlink_calls = 0
    /\ result = None

\* get_claude_pids: ps is spawned (or cannot be) and its output is parsed
GetClaudePids ==
    /\ pc = "idle"
    /\ platform \in {"macos", "linux"}
    /\ \E spawned \in BOOLEAN, status \in {0, 1}, noise \in Noise :
         /\ ps_out' = IF spawned
                      THEN Some([status |-> status,
                                 stdout |-> PsStdout(procs, noise)])
                      ELSE None
         /\ pids' = get_claude_pids(ps_out')
    /\ pc' = "listed"
    /\ UNCHANGED <<platform, procs, idx, cwd_of, lsof_out, paths, lsof_calls,
                   readlink_calls, result>>

\* detect_macos_sessions with no PID: the early return
DetectMacosEmpty ==
    /\ pc = "listed"
    /\ platform = "macos"
    /\ ShortCircuit(pids)
    /\ result' = Some(get_active_sessions(platform, {}))
    /\ pc' = "done"
    /\ UNCHANGED <<platform, procs, ps_out, pids, idx, cwd_of, lsof_out, paths,
                   lsof_calls, readlink_calls>>

\* detect_macos_sessions: the one lsof call over all PIDs and its parsing
DetectMacosLsof ==
    /\ pc = "listed"
    /\ platform = "macos"
    /\ ~ShortCircuit(pids)
    /\ lsof_calls' = lsof_calls + 1
    /\ \/ /\ lsof_out' = None
          /\ UNCHANGED cwd_of
       \/ \E m \in [Range(pids) -> CwdAnswers] :
            /\ cwd_of' = m
            /\ lsof_out' = Some(LsofOutput(pid_list(pids), m))
    /\ result' = Some(get_active_sessions(platform, macos_paths(lsof_out')))
    /\ pc' = "done"
    /\ UNCHANGED <<platform, procs, ps_out, pids, idx, paths, readlink_calls>>

\* one turn of the for loop of detect_linux_sessions
LinuxStep ==
    /\ pc = "listed"
    /\ platform = "linux"
    /\ idx <= Len(pids)
    /\ \E ans \in CwdAnswers :
         /\ cwd_of' = (pids[idx] :> ans) @@ cwd_of
         /\ paths' = linux_insert(paths,
                                   get_process_cwd_linux(pids[idx], cwd_of'))
    /\ readlink_calls' = readlink_calls + 1
    /\ idx' = idx + 1
    /\ UNCHANGED <<platform, procs, pc, ps_out, pids, lsof_out, lsof_calls,
                   result>>

\* the end of the loop of detect_linux_sessions
LinuxReturn ==
    /\ pc = "listed"
    /\ platform = "linux"
    /\ idx > Len(pids)
    /\ result' = Some(get_active_sessions(platform, paths))
    /\ pc' = "done"
    /\ UNCHANGED <<platform, procs, ps_out, pids, idx, cwd_of, lsof_out, paths,
                   lsof_calls, readlink_calls>>

\* get_active_sessions on a target without a strategy
Unsupported ==
    /\ pc = "idle"
    /\ platform \notin {"macos", "linux"}
    /\ result' = Some(get_active_sessions(platform, {}))
    /\ pc' = "done"
    /\ UNCHANGED <<platform, procs, ps_out, pids, idx, cwd_of, lsof_out, paths,
                   lsof_calls, readlink_calls>>

Next ==
    \/ GetClaudePids
    \/ DetectMacosEmpty
    \/ DetectMacosLsof
    \/ LinuxStep
    \/ LinuxReturn
    \/ Unsupported

Spec == Init /\ [][Next]_vars

----------------------------------------------------------------------------
(* Properties *)

Done == pc = "done"
Res == result[1]
Listed == pc \in {"listed", "done"} /\ platform \in {"macos", "linux"}

\* the PIDs of the processes of the table named c
PidsNamed(c) == {PidOf(i) : i \in {j \in 1..Len(procs) : procs[j] = c}}

\* ps ran and wrote the plain listing of the process table
PsWellFormed == ps_out # None /\ ps_out[1].stdout = PsStdout(procs, None)

\* ps could not be spawned, or exited with a status other than 0
PsFailed == ps_out = None \/ ps_out[1].status # 0
LsofFailed == lsof_calls > 0 /\ (lsof_out = None \/ lsof_out[1].status # 0)

\* the directory answered for PID p is a path that is valid UTF-8
Resolved(p) ==
    p \in DOMAIN cwd_of /\ cwd_of[p] # None /\ to_str(cwd_of[p][1]) # None

\* C1: a returned result with supported = false has an empty active_paths,
\* and on a platform other than macOS and Linux the result is
\* {supported: false, activePaths: {}} whatever the process table holds.
C1_UnsupportedIsEmpty ==
    Done =>
      /\ ~Res.supported => Res.active_paths = {}
      /\ platform \notin {"macos", "linux"}
           => Res = [supported |-> FALSE, active_paths |-> {}]

C1_Witness ==
    /\ Done
    /\ platform = "windows"
    /\ PidsNamed(Claude) # {}
    /\ Res = [supported |-> FALSE, active_paths |-> {}]

\* C2: the supported flag of the result is true exactly when the platform
\* is macOS or Linux, whatever the processes and whatever ps, lsof and
\* /proc answer.
C2_SupportedIffPlatform ==
    Done => (Res.supported <=> platform \in {"macos", "linux"})

C2_Witness ==
    /\ Done
    /\ platform = "linux"
    /\ ps_out = None
    /\ Res.supported

\* C3 as claimed: supported = false if and only if active_paths is empty.
C3_Original ==
    Done => (~Res.supported <=> Res.active_paths = {})

\* C3 as amended: a non-empty active_paths implies supported = true, and on
\* a supported platform active_paths is empty exactly when no line of a
\* spawned lsof gave a path (macOS) or no link read gave one (Linux); so
\* supported = true with an empty active_paths is a result the code returns.
C3_NonEmptyImpliesSupported ==
    Done =>
      /\ Res.active_paths # {} => Res.supported
      /\ Res.supported /\ pids = <<>> => Res.active_paths = {}
      /\ Res.supported /\ (\E p \in Range(pids) : Resolved(p))
           => Res.active_paths # {}

C3_Witness ==
    /\ Done
    /\ Res.supported
    /\ Res.active_paths = {}
    /\ PsWellFormed

\* C4: only a process whose command name is exactly "claude" contributes its
\* PID to the list get_claude_pids returns.
C4_ExactName ==
    Listed =>
      \A i \in 1..Len(procs) : PidOf(i) \in Range(pids) => procs[i] = Claude

\* C5: on a supported platform, when ps and lsof were spawned, exited with 0
\* or 1 and wrote well-formed output and every directory is valid UTF-8,
\* active_paths is exactly the set of the directories of the processes named
\* "claude" whose directory could be resolved.
C5_ExactPaths ==
    /\ Done
    /\ Res.supported
    /\ PsWellFormed
    /\ platform = "macos" /\ pids # <<>> => lsof_out # None
    /\ \A p \in DOMAIN cwd_of : cwd_of[p] # Some(PathBad)
    => Res.active_paths
         = {cwd_of[p][1] : p \in {q \in PidsNamed(Claude) : Resolved(q)}}

\* C6 as claimed: a ps that failed (could not be spawned, or exited with a
\* status other than 0) yields no PIDs and an lsof that failed yields no
\* paths, whatever they wrote.
C6_Original ==
    /\ Listed /\ PsFailed => pids = <<>>
    /\ Done /\ LsofFailed => Res.active_paths = {}

\* C6 as amended: a ps that could not be spawned yields no PIDs and an empty
\* active_paths, an lsof that could not be spawned yields an empty
\* active_paths, and a result is returned in both cases.
C6_SpawnFailureAbsorbed ==
    /\ Listed /\ ps_out = None => pids = <<>>
    /\ Done /\ platform \in {"macos", "linux"} /\ ps_out = None
         => result # None /\ Res.active_paths = {}
    /\ Done /\ lsof_calls > 0 /\ lsof_out = None
         => result # None /\ Res.active_paths = {}

C6_Witness ==
    /\ Done
    /\ ps_out = None
    /\ PidsNamed(Claude) # {}
    /\ Res = [supported |-> TRUE, active_paths |-> {}]

\* the PIDs a listing holding the one line of process i gives
PidsOfLineAlone(i) ==
    get_claude_pids(Some([status |-> 0, stdout |-> PsLine(PidOf(i), procs[i])]))

\* the paths an lsof output holding the one block of PID p gives
PathsOfBlockAlone(p) ==
    macos_paths(Some([status |-> 0, stdout |-> LsofBlock(to_string(p), cwd_of)]))

\* C7: the PIDs got from a ps listing are those each process line yields on
\* its own, in order, whatever malformed line stands among them (the header,
\* a line cut short, a PID that is no number or does not fit), and the paths
\* got from an lsof output are the union of what each block yields on its own.
C7_LineIndependent ==
    /\ Listed /\ ps_out # None
         => pids = Flatten([i \in 1..Len(procs) |-> PidsOfLineAlone(i)])
    /\ Done /\ lsof_out # None
         => Res.active_paths = UNION {PathsOfBlockAlone(p) : p \in Range(pids)}

C7_Witness ==
    /\ Done
    /\ platform = "macos"
    /\ ps_out # None
    /\ ps_out[1].stdout = PsStdout(procs, Some(NonNumeric))
    /\ pids = <<PidOf(1), PidOf(2)>>
    /\ lsof_out # None
    /\ Res.active_paths = {PathA, PathB}

\* C8: a listed PID whose directory cannot be resolved is the only one absent:
\* the directory of every other listed PID that resolves is in active_paths.
C8_OthersKept ==
    Done /\ Res.supported =>
      \A p \in Range(pids) : Resolved(p) => cwd_of[p][1] \in Res.active_paths

C8_Witness ==
    /\ Done
    /\ platform = "linux"
    /\ pids = <<PidOf(1), PidOf(2)>>
    /\ cwd_of[PidOf(1)] = None
    /\ cwd_of[PidOf(2)] = Some(PathA)
    /\ Res.active_paths = {PathA}

\* C9: when the lister returns no PIDs, a supported platform returns
\* {supported: true, activePaths: {}} and neither lsof is called nor a
\* /proc/<pid>/cwd link read.
C9_EmptyShortCircuit ==
    Done /\ platform \in {"macos", "linux"} /\ pids = <<>> =>
      /\ Res = [supported |-> TRUE, active_paths |-> {}]
      /\ lsof_calls = 0
      /\ readlink_calls = 0

C9_Witness ==
    /\ Done
    /\ platform = "macos"
    /\ PsWellFormed
    /\ procs # <<>>
    /\ pids = <<>>
    /\ lsof_calls = 0

\* C10: on the same PIDs and the same directories, the batched resolver and
\* the per-identifier resolver return the same set of paths.
C10_SameContract ==
    Done /\ DOMAIN cwd_of = Range(pids) =>
      detect_macos_sessions(pids, cwd_of) = detect_linux_sessions(pids, cwd_of)

====
